---- MODULE Spec2Model ----
(***************************************************************************)
(* Model of netlify/functions/parser.py: one invocation of handler, from   *)
(* the event it receives to the response it returns.                       *)
(*                                                                         *)
(* Python strings that the code inspects (URLs, download links, file       *)
(* names) are sequences of one-character strings.  The user-facing         *)
(* messages, which the source writes in Chinese, are rendered in English;  *)
(* a message is a sequence of parts, so f"{prefix}{str(e)}" is a           *)
(* concatenation.                                                          *)
(***************************************************************************)
EXTENDS Integers, Sequences, FiniteSets, TLC

\* ------------------------------------------------------------------ bounds
\* A request url is a concatenation of at most MaxParts fragments.
MaxParts == 2
\* The noteDetailMap of a xiaohongshu page holds at most MaxNotes entries.
MaxNotes == 2

\* --------------------------------------------------------------- constants
MAX_RETRIES == 3

SUPPORTED_PLATFORMS ==
  << [platform |-> "douyin",
      domains  |-> << <<"d", "o", "u", "y", "i", "n", ".", "c", "o", "m">>, <<"d", "y", ".", "c", "o", "m">>, <<"i", "e", "s", "d", "o", "u", "y", "i", "n", ".", "c", "o", "m">> >>],
     [platform |-> "kuaishou",
      domains  |-> << <<"k", "u", "a", "i", "s", "h", "o", "u", ".", "c", "o", "m">>, <<"k", "s", ".", "c", "o", "m">> >>],
     [platform |-> "xiaohongshu",
      domains  |-> << <<"x", "i", "a", "o", "h", "o", "n", "g", "s", "h", "u", ".", "c", "o", "m">>, <<"x", "h", "s", ".", "c", "o", "m">> >>],
     [platform |-> "bilibili",
      domains  |-> << <<"b", "i", "l", "i", "b", "i", "l", "i", ".", "c", "o", "m">>, <<"b", "2", "3", ".", "t", "v">> >>],
     [platform |-> "weishi",
      domains  |-> << <<"w", "e", "i", "s", "h", "i", ".", "q", "q", ".", "c", "o", "m">> >>] >>

\* Python's None where a platform or a parser is expected.
None == "None"

\* ------------------------------------------------------------ Python values
\* A value read from JSON: t is its type, s its text (t = "str"), n its
\* number (t = "int").  t = "missing" is an absent key.
Str(s) == [t |-> "str", s |-> s, n |-> 0]
Num(n) == [t |-> "int", s |-> << >>, n |-> n]
Null == [t |-> "null", s |-> << >>, n |-> 0]
Absent == [t |-> "missing", s |-> << >>, n |-> 0]

\* Mutant: a test against None in place of a truthiness test.
Truthy_NotNone(v) == v.t \notin {"missing", "null"}

\* Python truthiness, as `not x` and `a or b` use it.
Truthy(v) ==
  CASE v.t = "str" -> v.s /= << >>
    [] v.t = "int" -> v.n /= 0
    [] OTHER -> FALSE

\* d.get(key, default) on the value found under key.
Get(v, default) == IF v.t = "missing" THEN default ELSE v

\* ------------------------------------------------------------ string helpers
UpperLetters == <<"A", "B", "C", "D", "E", "F", "G", "H", "I", "J", "K", "L", "M", "N", "O", "P", "Q", "R", "S", "T", "U", "V", "W", "X", "Y", "Z">>
LowerLetters == <<"a", "b", "c", "d", "e", "f", "g", "h", "i", "j", "k", "l", "m", "n", "o", "p", "q", "r", "s", "t", "u", "v", "w", "x", "y", "z">>
Digits == {"0", "1", "2", "3", "4", "5", "6", "7", "8", "9"}
Whitespace == {" "}

LowerChar(c) ==
  IF \E k \in 1..Len(UpperLetters) : UpperLetters[k] = c
  THEN LowerLetters[CHOOSE k \in 1..Len(UpperLetters) : UpperLetters[k] = c]
  ELSE c

\* str.lower()
lower(s) == [i \in 1..Len(s) |-> LowerChar(s[i])]

\* sub occurs in s at position i
At(sub, s, i) ==
  /\ i >= 1
  /\ i + Len(sub) - 1 <= Len(s)
  /\ SubSeq(s, i, i + Len(sub) - 1) = sub

\* `sub in s`
Contains(sub, s) == \E i \in 1..(Len(s) + 1) : At(sub, s, i)

SetMin(S) == CHOOSE x \in S : \A y \in S : x <= y

\* str.strip()
strip(s) ==
  LET keep == {i \in 1..Len(s) : s[i] \notin Whitespace}
  IN IF keep = {} THEN << >>
     ELSE SubSeq(s, SetMin(keep), CHOOSE x \in keep : \A y \in keep : y <= x)

\* str.replace(old, new): every non-overlapping occurrence, left to right.
RECURSIVE replace(_, _, _)
replace(s, old, new) ==
  IF Len(s) < Len(old) THEN s
  ELSE IF At(old, s, 1)
       THEN new \o replace(SubSeq(s, Len(old) + 1, Len(s)), old, new)
       ELSE << s[1] >> \o replace(Tail(s), old, new)

\* ------------------------------------------------- get_platform_from_url
\* Mutant: the last matching platform of the registry wins.
get_platform_from_url_LastMatch(url) ==
  LET url_lower == lower(url)
      hits == {i \in 1..Len(SUPPORTED_PLATFORMS) :
                 \E d \in 1..Len(SUPPORTED_PLATFORMS[i].domains) :
                    Contains(SUPPORTED_PLATFORMS[i].domains[d], url_lower)}
  IN IF hits = {} THEN None
     ELSE SUPPORTED_PLATFORMS[CHOOSE x \in hits : \A y \in hits : y <= x].platform

\* The first platform, in the order of SUPPORTED_PLATFORMS, one of whose
\* domains occurs in the lower-cased url; None when there is none.
get_platform_from_url(url) ==
  LET url_lower == lower(url)
      hits == {i \in 1..Len(SUPPORTED_PLATFORMS) :
                 \E d \in 1..Len(SUPPORTED_PLATFORMS[i].domains) :
                    Contains(SUPPORTED_PLATFORMS[i].domains[d], url_lower)}
  IN IF hits = {} THEN None ELSE SUPPORTED_PLATFORMS[SetMin(hits)].platform

\* ------------------------------------------------------------- get_parser
ImplementedParsers == {"douyin", "kuaishou", "xiaohongshu"}

\* Mutant: every classified platform has a parser.
get_parser_Any(platform) == platform

get_parser(platform) ==
  IF platform \in ImplementedParsers THEN platform ELSE None

\* -------------------------------------------------------------- exceptions
Exc(type, text) == [type |-> type, text |-> text]
NoExc == [type |-> "none", text |-> << >>]

\* Subclasses of ValueError / of requests.RequestException among the
\* exception types of the model; every type is a subclass of Exception.
ValueErrorTypes == {"ValueError", "JSONDecodeError"}
RequestExceptionTypes == {"RequestException", "HTTPError", "ConnectionError", "Timeout"}
\* Defects of the code on a payload of unexpected shape.
FaultTypes == {"AttributeError", "TypeError", "KeyError"}

\* --------------------------------------------------------------- responses
CorsHeaders ==
  [allow_origin  |-> "*",
   allow_headers |-> "Content-Type",
   allow_methods |-> "POST, OPTIONS",
   content_type  |-> "application/json"]

NoRecord ==
  [title |-> Absent, download_url |-> Absent, platform |-> "", video_id |-> Absent,
   author |-> Absent, duration |-> Absent, size |-> "", filename |-> << >>]

\* The three shapes of body the handler serialises.
PreflightBody ==
  [kind |-> "preflight", success |-> FALSE, message |-> << "CORS preflight" >>,
   record |-> NoRecord]
ErrorBody(message) ==
  [kind |-> "error", success |-> FALSE, message |-> message, record |-> NoRecord]
RecordBody(record) ==
  [kind |-> "record", success |-> TRUE, message |-> << >>, record |-> record]

\* json.dumps: the body becomes JSON text holding the value.
json_dumps(body) == [encoding |-> "json", value |-> body]

Response(statusCode, body) ==
  [statusCode |-> statusCode, headers |-> CorsHeaders, body |-> json_dumps(body)]

NoHeaders ==
  [allow_origin |-> "", allow_headers |-> "", allow_methods |-> "", content_type |-> ""]
NoResponse ==
  [statusCode |-> 0, headers |-> NoHeaders,
   body |-> [encoding |-> "none",
             value |-> [kind |-> "none", success |-> FALSE, message |-> << >>,
                        record |-> NoRecord]]]

\* The messages of handler (lines 406, 422, 434, 446, 458, 492).
MsgMethod == << "only POST requests are supported" >>
MsgMalformed == << "malformed request data" >>
MsgUrlRequired == << "please provide a video link" >>
MsgUnsupported == << "unsupported platform; douyin, kuaishou, xiaohongshu are supported" >>
MsgNotImplemented(platform) == << platform, " parser is not implemented yet" >>
MsgInternal == << "internal server error, please retry later" >>

\* ------------------------------------------------------------------ events
\* The decoded request: a dict with its url field, or a value that is no dict.
JsonDict(url) == [t |-> "dict", url |-> url]
JsonList == [t |-> "list", url |-> Absent]
JsonNull == [t |-> "null", url |-> Absent]

\* event['body']: t = "missing" (no such key), "null" (None), "str" (JSON text:
\* wellformed tells whether json.loads accepts it, json is the value it then
\* denotes), "dict" or "list" (an object that is passed on as it is).
BodyMissing == [t |-> "missing", wellformed |-> FALSE, json |-> JsonNull]
BodyNull == [t |-> "null", wellformed |-> FALSE, json |-> JsonNull]
BodyBadText == [t |-> "str", wellformed |-> FALSE, json |-> JsonNull]
BodyText(json) == [t |-> "str", wellformed |-> TRUE, json |-> json]
BodyObject(json) == [t |-> json.t, wellformed |-> FALSE, json |-> json]

\* lines 411-415: the try block that decodes the body.
decode_body(body) ==
  IF body.t = "str"
  THEN IF body.wellformed
       THEN [kind |-> "return", value |-> body.json, exc |-> NoExc]
       ELSE [kind |-> "raise", value |-> JsonNull,
             exc |-> Exc("JSONDecodeError", << "Expecting value" >>)]
  ELSE IF body.t = "missing"
       THEN [kind |-> "return", value |-> JsonDict(Absent), exc |-> NoExc]
       ELSE IF body.t = "null"
            THEN [kind |-> "return", value |-> JsonNull, exc |-> NoExc]
            ELSE [kind |-> "return", value |-> body.json, exc |-> NoExc]

\* ----------------------------------------------------- handler, lines 390-460
\* What the part of handler before parser.parse comes to: a response
\* (kind = "return"), an exception on its way to the outer except clause
\* (kind = "raise"), or the call of parser.parse (kind = "parse").  steps
\* lists the stages the invocation went through, platform is what
\* get_platform_from_url returned (None also where it was not called).
Returns(response, steps) ==
  [kind |-> "return", response |-> response, exc |-> NoExc, steps |-> steps,
   platform |-> None, video_url |-> << >>]
Raises(exc, steps) ==
  [kind |-> "raise", response |-> NoResponse, exc |-> exc, steps |-> steps,
   platform |-> None, video_url |-> << >>]
Parses(platform, video_url, steps) ==
  [kind |-> "parse", response |-> NoResponse, exc |-> NoExc, steps |-> steps,
   platform |-> platform, video_url |-> video_url]

handler_dispatch(video_url, steps) ==
  LET platform == get_platform_from_url(video_url)
      s1 == Append(steps, "classify")
  IN IF platform = None
     THEN Returns(Response(400, ErrorBody(MsgUnsupported)), s1)
     ELSE LET parser == get_parser(platform)
              s2 == Append(s1, "get_parser")
          IN IF parser = None
             THEN [Returns(Response(500, ErrorBody(MsgNotImplemented(platform))), s2)
                     EXCEPT !.platform = platform]
             ELSE Parses(platform, video_url, Append(s2, "parse"))

handler_url(request_data, steps) ==
  LET s1 == Append(steps, "url")
  IN IF request_data.t /= "dict"
     THEN Raises(Exc("AttributeError", << "object has no attribute 'get'" >>), s1)
     ELSE LET raw == Get(request_data.url, Str(<< >>))
          IN IF raw.t /= "str"
             THEN Raises(Exc("AttributeError", << "object has no attribute 'strip'" >>), s1)
             ELSE LET video_url == strip(raw.s)
                  IN IF video_url = << >>
                     THEN Returns(Response(400, ErrorBody(MsgUrlRequired)), s1)
                     ELSE handler_dispatch(video_url, s1)

handler_entry(event) ==
  IF event.httpMethod = "OPTIONS"
  THEN Returns(Response(200, PreflightBody), << "method" >>)
  ELSE IF event.httpMethod /= "POST"
       THEN Returns(Response(405, ErrorBody(MsgMethod)), << "method" >>)
       ELSE LET decoded == decode_body(event.body)
                steps == << "method", "body" >>
            IN IF decoded.kind = "raise"
               THEN Returns(Response(400, ErrorBody(MsgMalformed)), steps)
               ELSE handler_url(decoded.value, steps)

\* lines 463-480: the try around parser.parse.  outcome is what parse came
\* to: kind = "return" with its record, or kind = "raise" with its exception.
handler_parse(outcome) ==
  IF outcome.kind = "return"
  THEN [kind |-> "return", response |-> Response(200, RecordBody(outcome.record)),
        exc |-> NoExc]
  ELSE IF outcome.exc.type \in ValueErrorTypes
       THEN [kind |-> "return", response |-> Response(400, ErrorBody(outcome.exc.text)),
             exc |-> NoExc]
       ELSE [kind |-> "raise", response |-> NoResponse, exc |-> outcome.exc]

\* Mutant: no outer except clause.
handler_except_None(outcome) ==
  IF outcome.kind = "raise"
  THEN [response |-> NoResponse, escaped |-> TRUE]
  ELSE [response |-> outcome.response, escaped |-> FALSE]

\* lines 482-494: the outer except clause.  The result is the invocation's
\* end: the response returned, or the exception that escapes.
handler_except(outcome) ==
  IF outcome.kind = "raise"
  THEN [response |-> Response(500, ErrorBody(MsgInternal)), escaped |-> FALSE]
  ELSE [response |-> outcome.response, escaped |-> FALSE]

\* ------------------------------------------------- make_request, lines 93-112
\* What one session.get comes to: a response with its status code and its
\* Location header, or an exception of requests (a connection error, a timeout).
ResponseOutcome(status, location) ==
  [kind |-> "response", status |-> status, location |-> location, exc |-> NoExc]
ExceptionOutcome(type) ==
  [kind |-> "exception", status |-> 0, location |-> Absent,
   exc |-> Exc(type, << type >>)]

\* Response.raise_for_status(): an HTTPError for a 4xx or 5xx status only.
raise_for_status(status) == status >= 400 /\ status < 600

NoFetch == [kind |-> "none", status |-> 0, location |-> Absent, exc |-> NoExc]

\* Mutant: the loop gives up one attempt early.
make_request_attempt_OneFewer(attempt, outcome) ==
  LET failed == outcome.kind = "exception" \/ raise_for_status(outcome.status)
      e == IF outcome.kind = "exception" THEN outcome.exc
           ELSE Exc("HTTPError", << "HTTP status error" >>)
  IN IF ~failed
     THEN [kind |-> "return", status |-> outcome.status,
           location |-> outcome.location, exc |-> NoExc]
     ELSE IF attempt >= MAX_RETRIES - 2
          THEN [kind |-> "raise", status |-> 0, location |-> Absent, exc |-> e]
          ELSE [kind |-> "continue", status |-> 0, location |-> Absent, exc |-> NoExc]

\* One iteration of the loop of make_request: attempt is the loop index
\* (0-based), outcome what session.get came to.  kind = "return": the response
\* is returned; "raise": the exception leaves make_request; "continue": the
\* loop goes on to the next attempt.
make_request_attempt(attempt, outcome) ==
  LET failed == outcome.kind = "exception" \/ raise_for_status(outcome.status)
      e == IF outcome.kind = "exception" THEN outcome.exc
           ELSE Exc("HTTPError", << "HTTP status error" >>)
  IN IF ~failed
     THEN [kind |-> "return", status |-> outcome.status,
           location |-> outcome.location, exc |-> NoExc]
     ELSE IF attempt = MAX_RETRIES - 1
          THEN [kind |-> "raise", status |-> 0, location |-> Absent, exc |-> e]
          ELSE [kind |-> "continue", status |-> 0, location |-> Absent, exc |-> NoExc]

\* ------------------------------------------------------------ parse outcomes
\* What a strategy's try block comes to before its except clause: a record,
\* or an exception.  origin is the exception first raised on the way (it
\* differs from exc where the code swallowed it and raised another).
ParseReturn(record) ==
  [kind |-> "return", record |-> record, exc |-> NoExc, origin |-> NoExc]
ParseRaise(exc) ==
  [kind |-> "raise", record |-> NoRecord, exc |-> exc, origin |-> exc]
ParseRaiseAfter(exc, origin) ==
  [kind |-> "raise", record |-> NoRecord, exc |-> exc, origin |-> origin]

\* `except Exception as e: raise ValueError(f"<prefix>{str(e)}")`, the except
\* clause of each parse (lines 204-205, 267-268, 322-323).
parse_except(prefix, outcome) ==
  IF outcome.kind = "raise"
  THEN [outcome EXCEPT !.exc = Exc("ValueError", << prefix >> \o outcome.exc.text)]
  ELSE outcome

DouyinPrefix == "douyin parse failed: "
KuaishouPrefix == "kuaishou parse failed: "
XiaohongshuPrefix == "xiaohongshu parse failed: "

\* ------------------------------------- DouyinParser._extract_video_id, 207-220
\* The longest run of digits of s that starts at position i.
DigitRun(s, i) ==
  LET ends == {j \in i..Len(s) : \A k \in i..j : s[k] \in Digits}
  IN IF ends = {} THEN << >>
     ELSE SubSeq(s, i, CHOOSE x \in ends : \A y \in ends : y <= x)

\* re.search(prefix + r'(\d+)', url): group 1 of the leftmost match.
SearchDigitsAfter(prefix, url) ==
  LET hits == {i \in 1..Len(url) :
                 At(prefix, url, i) /\ DigitRun(url, i + Len(prefix)) /= << >>}
  IN IF hits = {} THEN Null
     ELSE Str(DigitRun(url, SetMin(hits) + Len(prefix)))

\* re.search(r'/(\d+)/?$', url): digits after a slash that run to the end of
\* the url or to its final slash.
SearchTrailingDigits(url) ==
  LET n == Len(url)
      hits == {i \in 1..n :
                 /\ url[i] = "/"
                 /\ LET e == i + Len(DigitRun(url, i + 1))
                    IN /\ e > i
                       /\ \/ e = n
                          \/ e = n - 1 /\ url[n] = "/"}
  IN IF hits = {} THEN Null ELSE Str(DigitRun(url, SetMin(hits) + 1))

extract_video_id(url) ==
  LET m1 == SearchDigitsAfter(<<"/", "v", "i", "d", "e", "o", "/">>, url)
      m2 == SearchDigitsAfter(<<"i", "t", "e", "m", "_", "i", "d", "s", "=">>, url)
      m3 == SearchTrailingDigits(url)
  IN IF m1.t = "str" THEN m1
     ELSE IF m2.t = "str" THEN m2
          ELSE m3

\* ------------------------------------------------------- DouyinParser.parse
DouyinApiPrefix == <<"h", "t", "t", "p", "s", ":", "/", "/", "w", "w", "w", ".", "i", "e", "s", "d", "o", "u", "y", "i", "n", ".", "c", "o", "m", "/", "w", "e", "b", "/", "a", "p", "i", "/", "v", "2", "/", "a", "w", "e", "m", "e", "/", "i", "t", "e", "m", "i", "n", "f", "o", "/", "?", "i", "t", "e", "m", "_", "i", "d", "s", "=">>
DouyinTitle == <<"d", "o", "u", "y", "i", "n", " ", "v", "i", "d", "e", "o">>
DouyinName == "Douyin"

\* Mutant: the api request is made whether or not an id was found.
douyin_resolve_NoIdCheck(url, fetch) ==
  IF fetch.kind = "raise"
  THEN [kind |-> "raise", exc |-> fetch.exc, video_id |-> Null, api_url |-> << >>]
  ELSE LET real_url == IF fetch.status \in {301, 302}
                       THEN Get(fetch.location, Str(url))
                       ELSE Str(url)
           video_id == extract_video_id(real_url.s)
       IN [kind |-> "request", exc |-> NoExc, video_id |-> video_id,
           api_url |-> DouyinApiPrefix \o video_id.s]

\* lines 146-160: from the first response to the video id.  kind = "request":
\* the api url to fetch next; kind = "raise": the exception raised.
douyin_resolve(url, fetch) ==
  IF fetch.kind = "raise"
  THEN [kind |-> "raise", exc |-> fetch.exc, video_id |-> Null, api_url |-> << >>]
  ELSE LET real_url == IF fetch.status \in {301, 302}
                       THEN Get(fetch.location, Str(url))
                       ELSE Str(url)
           video_id == extract_video_id(real_url.s)
       IN IF ~Truthy(video_id)
          THEN [kind |-> "raise", exc |-> Exc("ValueError", << "cannot extract the video id" >>),
                video_id |-> Null, api_url |-> << >>]
          ELSE [kind |-> "request", exc |-> NoExc, video_id |-> video_id,
                api_url |-> DouyinApiPrefix \o video_id.s]

\* The duration in seconds: milliseconds / 1000, kept as the numerator over
\* the denominator 1000.
Seconds(ms) == [t |-> "float_over_1000", s |-> << >>, n |-> ms]

\* lines 168-202: from the api response to the record.  page is the payload.
douyin_record(fetch, page, video_id) ==
  IF fetch.kind = "raise" THEN ParseRaise(fetch.exc)
  ELSE IF ~page.json_ok
  THEN ParseRaise(Exc("JSONDecodeError", << "Expecting value" >>))
  ELSE IF page.data_t /= "dict"
  THEN ParseRaise(Exc("TypeError", << "argument of type 'int' is not iterable" >>))
  ELSE IF page.item_list \in {"missing", "empty"}
  THEN ParseRaise(Exc("ValueError", << "malformed API response" >>))
  ELSE IF page.item_list = "dict"
  THEN ParseRaise(Exc("KeyError", << "0" >>))
  ELSE IF page.item_t /= "dict"
  THEN ParseRaise(Exc("AttributeError", << "'int' object has no attribute 'get'" >>))
  ELSE IF page.video = "null"
  THEN ParseRaise(Exc("AttributeError", << "'NoneType' object has no attribute 'get'" >>))
  ELSE
    LET has_video == page.video = "dict"
        has_addr == has_video /\ page.play_addr = "dict"
        download_url == IF has_addr /\ page.url_list = "list" THEN page.url0 ELSE Null
        duration == IF has_video THEN Get(page.duration, Num(0)) ELSE Num(0)
    IN IF ~Truthy(download_url)
       THEN ParseRaise(Exc("ValueError", << "cannot get the download link" >>))
       ELSE IF download_url.t /= "str"
       THEN ParseRaise(Exc("AttributeError", << "'int' object has no attribute 'replace'" >>))
       ELSE IF duration.t /= "int"
       THEN ParseRaise(Exc("TypeError", << "unsupported operand type(s) for /: 'str' and 'int'" >>))
       ELSE ParseReturn(
              [title |-> Get(page.desc, Str(DouyinTitle)),
               download_url |-> Str(replace(download_url.s, <<"w", "a", "t", "e", "r", "m", "a", "r", "k", "=", "1">>, <<"w", "a", "t", "e", "r", "m", "a", "r", "k", "=", "0">>)),
               platform |-> DouyinName,
               video_id |-> video_id,
               author |-> Get(page.nickname, Str(<< >>)),
               duration |-> Seconds(duration.n),
               size |-> "unknown",
               filename |-> <<"d", "o", "u", "y", "i", "n", "_">> \o video_id.s \o <<".", "m", "p", "4">>])

\* ----------------------------------------------------- KuaishouParser.parse
KuaishouTitle == <<"k", "u", "a", "i", "s", "h", "o", "u", " ", "v", "i", "d", "e", "o">>
KuaishouName == "Kuaishou"

\* `a or b`
Or(a, b) == IF Truthy(a) THEN a ELSE b

\* lines 234-265.  page.pattern tells whether the window.pageData assignment
\* is found in the page, page.json_ok whether the captured text is JSON.
kuaishou_record(fetch, page) ==
  IF fetch.kind = "raise" THEN ParseRaise(fetch.exc)
  ELSE IF ~page.pattern
  THEN ParseRaise(Exc("ValueError", << "cannot find the page data" >>))
  ELSE IF ~page.json_ok
  THEN ParseRaise(Exc("JSONDecodeError", << "Expecting value" >>))
  ELSE IF page.videoInfo \in {"missing", "empty"}
  THEN ParseRaise(Exc("ValueError", << "no video information in the page data" >>))
  ELSE IF page.videoInfo /= "dict"
  THEN ParseRaise(Exc("AttributeError", << "'list' object has no attribute 'get'" >>))
  ELSE
    LET video_url == Or(page.srcNoMark, page.src)
    IN IF ~Truthy(video_url)
       THEN ParseRaise(Exc("ValueError", << "cannot get the download link" >>))
       ELSE ParseReturn(
              [title |-> Get(page.title, Str(KuaishouTitle)),
               download_url |-> video_url,
               platform |-> KuaishouName,
               video_id |-> Absent,
               author |-> Get(page.userName, Str(<< >>)),
               duration |-> Absent,
               size |-> "unknown",
               filename |-> <<"k", "u", "a", "i", "s", "h", "o", "u", "_">> \o Get(page.photoId, Str(<<"v", "i", "d", "e", "o">>)).s \o <<".", "m", "p", "4">>])

\* -------------------------------------------------- XiaohongshuParser.parse
XiaohongshuTitle == <<"x", "i", "a", "o", "h", "o", "n", "g", "s", "h", "u", " ", "v", "i", "d", "e", "o">>
XiaohongshuName == "Xiaohongshu"

NoNote ==
  [found |-> FALSE, fault |-> NoExc, note_id |-> Absent, title |-> Absent,
   author |-> Absent, video_url |-> Absent]

\* lines 331-342: the loop over noteDetailMap.items(), from entry i on.  An
\* entry that is no dict raises in note_info.get, which ends the loop.
RECURSIVE extract_note_loop(_, _)
extract_note_loop(note_detail, i) ==
  IF i > Len(note_detail) THEN NoNote
  ELSE LET note_info == note_detail[i]
       IN IF note_info.shape /= "dict"
          THEN [NoNote EXCEPT !.fault =
                  Exc("AttributeError", << "'int' object has no attribute 'get'" >>)]
          ELSE IF note_info.type = Str(<<"v", "i", "d", "e", "o">>)
               THEN [found |-> TRUE, fault |-> NoExc,
                     note_id |-> Str(note_info.note_id),
                     title |-> Get(note_info.title, Str(<< >>)),
                     author |-> Get(note_info.nickname, Str(<< >>)),
                     video_url |-> Get(note_info.videoKey, Str(<< >>))]
               ELSE extract_note_loop(note_detail, i + 1)

\* Mutant: the loop does not stop at the first video note, the last one wins.
extract_note_data_LastVideo(page) ==
  LET m == page.noteDetailMap
      videos == {i \in 1..Len(m) : m[i].shape = "dict" /\ m[i].type = Str(<<"v", "i", "d", "e", "o">>)}
  IN IF page.note = "null"
     THEN [NoNote EXCEPT !.fault =
             Exc("AttributeError", << "'NoneType' object has no attribute 'get'" >>)]
     ELSE IF page.note = "missing" THEN NoNote
          ELSE IF videos = {} THEN extract_note_loop(m, 1)
               ELSE extract_note_loop(m, CHOOSE x \in videos : \A y \in videos : y <= x)

\* _extract_note_data, lines 325-345: the dict of the first video note;
\* found = FALSE stands for None, also where the except clause (line 344)
\* swallowed an exception, which fault then names.
extract_note_data(page) ==
  IF page.note = "null"
  THEN [NoNote EXCEPT !.fault =
          Exc("AttributeError", << "'NoneType' object has no attribute 'get'" >>)]
  ELSE IF page.note = "missing" THEN NoNote
       ELSE extract_note_loop(page.noteDetailMap, 1)

\* lines 287-320.  page.pattern tells whether the window.__INITIAL_STATE__
\* assignment is found in the page, page.json_ok whether the captured text is
\* JSON.
xiaohongshu_record(fetch, page) ==
  IF fetch.kind = "raise" THEN ParseRaise(fetch.exc)
  ELSE IF ~page.pattern
  THEN ParseRaise(Exc("ValueError", << "cannot find the page state data" >>))
  ELSE IF ~page.json_ok
  THEN ParseRaiseAfter(Exc("ValueError", << "cannot parse the page data" >>),
                       Exc("JSONDecodeError", << "Expecting value" >>))
  ELSE
    LET note_data == extract_note_data(page)
    IN IF ~note_data.found
       THEN ParseRaiseAfter(Exc("ValueError", << "cannot extract the note data" >>),
                            IF note_data.fault = NoExc
                            THEN Exc("ValueError", << "cannot extract the note data" >>)
                            ELSE note_data.fault)
       ELSE IF ~Truthy(note_data.video_url)
       THEN ParseRaise(Exc("ValueError", << "cannot get the download link" >>))
       ELSE ParseReturn(
              [title |-> Get(note_data.title, Str(XiaohongshuTitle)),
               download_url |-> note_data.video_url,
               platform |-> XiaohongshuName,
               video_id |-> Absent,
               author |-> Get(note_data.author, Str(<< >>)),
               duration |-> Absent,
               size |-> "unknown",
               filename |-> <<"x", "i", "a", "o", "h", "o", "n", "g", "s", "h", "u", "_">> \o Get(note_data.note_id, Str(<<"v", "i", "d", "e", "o">>)).s
                            \o <<".", "m", "p", "4">>])

\* The first make_request of each parse (lines 146, 234, 287) and the second
\* one of DouyinParser.parse (line 168).
first_call(parser, url) ==
  [url |-> url,
   headers |-> IF parser = "xiaohongshu" THEN "xiaohongshu referer" ELSE "default",
   follow_redirects |-> parser /= "douyin"]
douyin_api_call(api_url) ==
  [url |-> api_url, headers |-> "douyin referer", follow_redirects |-> TRUE]
NoCall == [url |-> << >>, headers |-> "", follow_redirects |-> FALSE]

\* ------------------------------------------------------------------ inputs
\* The fragments request urls are made of.
Fragments ==
  { <<"d", "o", "u", "y", "i", "n", ".", "c", "o", "m">>, <<"I", "E", "S", "D", "o", "u", "y", "i", "n", ".", "C", "O", "M">>, <<"k", "s", ".", "c", "o", "m">>, <<"X", "H", "S", ".", "c", "o", "m">>, <<"b", "2", "3", ".", "t", "v">>,
    <<"w", "e", "i", "s", "h", "i", ".", "q", "q", ".", "c", "o", "m">>, <<"e", "x", "a", "m", "p", "l", "e", ".", "o", "r", "g">>, <<"/", "v", "i", "d", "e", "o", "/", "7">>, <<"/", "4", "2", "/">>, <<" ">> }

RECURSIVE Urls(_)
Urls(n) ==
  IF n = 0 THEN { << >> }
  ELSE Urls(n - 1) \cup {u \o f : u \in Urls(n - 1), f \in Fragments}

UrlFields == {Absent, Null, Num(5)} \cup {Str(u) : u \in Urls(MaxParts)}

Methods == {"OPTIONS", "POST", "GET", "missing"}

\* Every shape of body with a POST; a body passed as a mapping, and the
\* other methods, with fewer of them.
Events ==
  LET texts == {BodyText(JsonDict(u)) : u \in UrlFields}
                 \cup {BodyText(JsonList), BodyText(JsonNull), BodyBadText}
      objects == {BodyObject(JsonDict(u)) : u \in {Absent, Null} \cup {Str(f) : f \in Fragments}}
                 \cup {BodyObject(JsonList), BodyMissing, BodyNull}
  IN {[httpMethod |-> "POST", body |-> b] : b \in texts \cup objects}
     \cup {[httpMethod |-> m, body |-> b] :
             m \in Methods \ {"POST"},
             b \in {BodyMissing, BodyBadText, BodyText(JsonDict(Str(<<"d", "o", "u", "y", "i", "n", ".", "c", "o", "m", "/", "v", "i", "d", "e", "o", "/", "7">>)))}}

\* What session.get can come to.  A 3xx response that names a Location is
\* final only where the redirect is not followed.
Locations == {Absent, Str(<<"h", "t", "t", "p", "s", ":", "/", "/", "w", "w", "w", ".", "i", "e", "s", "d", "o", "u", "y", "i", "n", ".", "c", "o", "m", "/", "s", "h", "a", "r", "e", "/", "v", "i", "d", "e", "o", "/", "4", "2", "/">>),
              Str(<<"h", "t", "t", "p", "s", ":", "/", "/", "w", "w", "w", ".", "d", "o", "u", "y", "i", "n", ".", "c", "o", "m", "/", "h", "o", "m", "e">>)}
Outcomes(call) ==
  {ResponseOutcome(200, Absent), ResponseOutcome(404, Absent),
   ExceptionOutcome("ConnectionError"), ExceptionOutcome("Timeout"),
   ResponseOutcome(301, Absent)}
  \cup (IF call.follow_redirects THEN {}
        ELSE {ResponseOutcome(302, l) : l \in Locations})

\* The payloads of the douyin api.
DouyinGood ==
  [json_ok |-> TRUE, data_t |-> "dict", item_list |-> "list", item_t |-> "dict",
   desc |-> Str(<<"c", "l", "i", "p">>), video |-> "dict", play_addr |-> "dict", url_list |-> "list",
   url0 |-> Str(<<"v", ".", "m", "p", "4", "?", "w", "a", "t", "e", "r", "m", "a", "r", "k", "=", "1">>), nickname |-> Str(<<"b", "o", "b">>), duration |-> Num(12345)]
DouyinPages ==
  {[DouyinGood EXCEPT !.desc = d, !.url0 = u, !.duration = r] :
     d \in {Absent, Str(<< >>), Str(<<"c", "l", "i", "p">>)},
     u \in {Null, Str(<< >>), Str(<<"v", ".", "m", "p", "4">>), Str(<<"v", ".", "m", "p", "4", "?", "w", "a", "t", "e", "r", "m", "a", "r", "k", "=", "1">>), Num(5)},
     r \in {Absent, Num(12345), Str(<<"l", "o", "n", "g">>)}}
  \cup {[DouyinGood EXCEPT !.json_ok = FALSE], [DouyinGood EXCEPT !.data_t = "int"],
        [DouyinGood EXCEPT !.item_t = "int"], [DouyinGood EXCEPT !.nickname = Absent],
        [DouyinGood EXCEPT !.play_addr = "missing"]}
  \cup {[DouyinGood EXCEPT !.item_list = x] : x \in {"missing", "empty", "dict"}}
  \cup {[DouyinGood EXCEPT !.video = x] : x \in {"missing", "null"}}
  \cup {[DouyinGood EXCEPT !.url_list = x] : x \in {"missing", "empty"}}

\* The pages of kuaishou.
KuaishouGood ==
  [pattern |-> TRUE, json_ok |-> TRUE, videoInfo |-> "dict",
   srcNoMark |-> Str(<<"a", ".", "m", "p", "4">>), src |-> Str(<<"b", ".", "m", "p", "4">>), title |-> Str(<<"c", "l", "i", "p">>),
   userName |-> Str(<<"b", "o", "b">>), photoId |-> Str(<<"9">>)]
KuaishouPages ==
  {[KuaishouGood EXCEPT !.srcNoMark = a, !.src = b, !.title = d, !.photoId = i] :
     a \in {Absent, Str(<< >>), Str(<<"a", ".", "m", "p", "4">>)},
     b \in {Absent, Str(<< >>), Str(<<"b", ".", "m", "p", "4">>), Num(5)},
     d \in {Absent, Str(<< >>), Str(<<"c", "l", "i", "p">>)},
     i \in {Absent, Str(<<"9">>)}}
  \cup {[KuaishouGood EXCEPT !.pattern = FALSE], [KuaishouGood EXCEPT !.json_ok = FALSE],
        [KuaishouGood EXCEPT !.userName = Absent]}
  \cup {[KuaishouGood EXCEPT !.videoInfo = x] : x \in {"missing", "empty", "list"}}

\* The pages of xiaohongshu: the entries of noteDetailMap, in its order; the
\* entry at position i has the note id "n<i>".
NoteShapes ==
  {[shape |-> "int", type |-> Absent, title |-> Absent, nickname |-> Absent,
    videoKey |-> Absent],
   [shape |-> "dict", type |-> Str(<<"n", "o", "r", "m", "a", "l">>), title |-> Str(<<"m", "e", "m", "o">>),
    nickname |-> Str(<<"e", "v", "e">>), videoKey |-> Absent],
   [shape |-> "dict", type |-> Str(<<"v", "i", "d", "e", "o">>), title |-> Str(<<"c", "l", "i", "p">>),
    nickname |-> Str(<<"b", "o", "b">>), videoKey |-> Str(<<"k", "e", "y">>)],
   [shape |-> "dict", type |-> Str(<<"v", "i", "d", "e", "o">>), title |-> Absent,
    nickname |-> Absent, videoKey |-> Str(<<"k", "e", "y">>)],
   [shape |-> "dict", type |-> Str(<<"v", "i", "d", "e", "o">>), title |-> Str(<<"c", "l", "i", "p">>),
    nickname |-> Str(<<"b", "o", "b">>), videoKey |-> Absent],
   [shape |-> "dict", type |-> Str(<<"v", "i", "d", "e", "o">>), title |-> Str(<<"c", "l", "i", "p">>),
    nickname |-> Str(<<"b", "o", "b">>), videoKey |-> Str(<< >>)]}
NoteId(i) == << "n", CHOOSE d \in Digits : d = ToString(i) >>
NoteMaps ==
  UNION {{[i \in 1..n |-> [note_id |-> NoteId(i), shape |-> m[i].shape, type |-> m[i].type,
                           title |-> m[i].title, nickname |-> m[i].nickname,
                           videoKey |-> m[i].videoKey]] :
            m \in [1..n -> NoteShapes]} : n \in 0..MaxNotes}
XiaohongshuPages ==
  {[pattern |-> TRUE, json_ok |-> TRUE, note |-> "dict", noteDetailMap |-> m] :
     m \in NoteMaps}
  \cup {[pattern |-> FALSE, json_ok |-> TRUE, note |-> "dict", noteDetailMap |-> << >>],
        [pattern |-> TRUE, json_ok |-> FALSE, note |-> "dict", noteDetailMap |-> << >>],
        [pattern |-> TRUE, json_ok |-> TRUE, note |-> "missing", noteDetailMap |-> << >>],
        [pattern |-> TRUE, json_ok |-> TRUE, note |-> "null", noteDetailMap |-> << >>]}

\* The payload a parse read: of is the parser, doc the payload.
NoPage == [of |-> None]
PageOf(p, doc) == [of |-> p, doc |-> doc]
\* The payloads parse can be given: where make_request raised there is no
\* response, and the payload is never looked at.
DouyinPagesFor(f) == IF f.kind = "return" THEN DouyinPages ELSE {DouyinGood}
KuaishouPagesFor(f) == IF f.kind = "return" THEN KuaishouPages ELSE {KuaishouGood}
XiaohongshuPagesFor(f) ==
  IF f.kind = "return" THEN XiaohongshuPages
  ELSE {[pattern |-> FALSE, json_ok |-> FALSE, note |-> "missing", noteDetailMap |-> << >>]}

\* ------------------------------------------------------------------- state
VARIABLES
  event,      \* the event handler is invoked with
  pc,         \* "start", "request" (inside make_request), "fetched" (make_request
              \* has ended, parse has not looked at it yet), "done"
  steps,      \* the stages the invocation went through, in order
  platform,   \* what get_platform_from_url returned, None before
  parser,     \* the strategy get_parser returned, None before
  video_url,  \* the url handed to parse
  video_id,   \* DouyinParser.parse: the id extracted from the resolved url
  call,       \* the arguments of the make_request call under way
  attempts,   \* the outcomes of the attempts of that call so far
  fetch,      \* how the last make_request call ended
  page,       \* the payload parse read from the response it was given
  calls,      \* make_request calls begun
  completed,  \* make_request calls ended
  response,   \* the response handler returned
  escaped,    \* an exception left handler
  origin      \* the exception first raised in the invocation, NoExc if none

vars == << event, pc, steps, platform, parser, video_url, video_id, call, attempts,
           fetch, page, calls, completed, response, escaped, origin >>

Init ==
  /\ event \in Events
  /\ pc = "start"
  /\ steps = << >>
  /\ platform = None
  /\ parser = None
  /\ video_url = << >>
  /\ video_id = Null
  /\ call = NoCall
  /\ attempts = << >>
  /\ fetch = NoFetch
  /\ page = NoPage
  /\ calls = 0
  /\ completed = 0
  /\ response = NoResponse
  /\ escaped = FALSE
  /\ origin = NoExc

\* handler returns: end is what handler_except made of the invocation.
Finish(end, first_exc) ==
  /\ pc' = "done"
  /\ response' = end.response
  /\ escaped' = end.escaped
  /\ origin' = first_exc
  /\ call' = NoCall
  /\ attempts' = << >>
  /\ fetch' = NoFetch

\* parse ends with outcome: lines 463-494 make the response of it.
FinishParse(prefix, outcome) ==
  Finish(handler_except(handler_parse(parse_except(prefix, outcome))), outcome.origin)

\* handler up to the call of parser.parse, and parse up to its first request.
Invoke ==
  /\ pc = "start"
  /\ \E r \in {handler_entry(event)} :
        IF r.kind = "parse"
        THEN /\ pc' = "request"
             /\ steps' = Append(r.steps, "make_request")
             /\ platform' = r.platform
             /\ parser' = get_parser(r.platform)
             /\ video_url' = r.video_url
             /\ call' = first_call(get_parser(r.platform), r.video_url)
             /\ calls' = 1
             /\ UNCHANGED << attempts, fetch, response, escaped, origin >>
        ELSE /\ Finish(handler_except(r), r.exc)
             /\ steps' = r.steps
             /\ platform' = r.platform
             /\ UNCHANGED << parser, video_url, calls >>
  /\ UNCHANGED << event, video_id, page, completed >>

\* One attempt of make_request.
Attempt ==
  /\ pc = "request"
  /\ \E outcome \in Outcomes(call) :
       LET r == make_request_attempt(Len(attempts), outcome)
       IN /\ attempts' = Append(attempts, outcome)
          /\ IF r.kind = "continue"
             THEN UNCHANGED << pc, fetch, completed >>
             ELSE /\ pc' = "fetched"
                  /\ fetch' = r
                  /\ completed' = completed + 1
  /\ UNCHANGED << event, steps, platform, parser, video_url, video_id, call, page,
                  calls, response, escaped, origin >>

\* DouyinParser.parse after its first request: the id, then the api request.
DouyinResolve ==
  /\ pc = "fetched" /\ parser = "douyin" /\ calls = 1
  /\ \E r \in {douyin_resolve(video_url, fetch)} :
        IF r.kind = "request"
        THEN /\ pc' = "request"
             /\ video_id' = r.video_id
             /\ call' = douyin_api_call(r.api_url)
             /\ calls' = calls + 1
             /\ attempts' = << >>
             /\ fetch' = NoFetch
             /\ steps' = Append(steps, "make_request")
             /\ UNCHANGED << response, escaped, origin >>
        ELSE /\ FinishParse(DouyinPrefix, ParseRaise(r.exc))
             /\ UNCHANGED << video_id, calls, steps >>
  /\ UNCHANGED << event, platform, parser, video_url, page, completed >>

\* DouyinParser.parse after the api request.
DouyinParse ==
  /\ pc = "fetched" /\ parser = "douyin" /\ calls = 2
  /\ \E doc \in DouyinPagesFor(fetch) :
       /\ FinishParse(DouyinPrefix, douyin_record(fetch, doc, video_id))
       /\ page' = IF fetch.kind = "return" THEN PageOf(parser, doc) ELSE NoPage
  /\ UNCHANGED << event, steps, platform, parser, video_url, video_id, calls,
                  completed >>

KuaishouParse ==
  /\ pc = "fetched" /\ parser = "kuaishou"
  /\ \E doc \in KuaishouPagesFor(fetch) :
       /\ FinishParse(KuaishouPrefix, kuaishou_record(fetch, doc))
       /\ page' = IF fetch.kind = "return" THEN PageOf(parser, doc) ELSE NoPage
  /\ UNCHANGED << event, steps, platform, parser, video_url, video_id, calls,
                  completed >>

XiaohongshuParse ==
  /\ pc = "fetched" /\ parser = "xiaohongshu"
  /\ \E doc \in XiaohongshuPagesFor(fetch) :
       /\ FinishParse(XiaohongshuPrefix, xiaohongshu_record(fetch, doc))
       /\ page' = IF fetch.kind = "return" THEN PageOf(parser, doc) ELSE NoPage
  /\ UNCHANGED << event, steps, platform, parser, video_url, video_id, calls,
                  completed >>

Next ==
  \/ Invoke
  \/ Attempt
  \/ DouyinResolve
  \/ DouyinParse
  \/ KuaishouParse
  \/ XiaohongshuParse

Spec == Init /\ [][Next]_vars

\* =================================================================== claims
\* What the properties say about the request, read off the event alone.
IsPost == event.httpMethod = "POST"
BodyUnparsable == event.body.t = "str" /\ ~event.body.wellformed
RequestIsDict ==
  \/ event.body.t = "str" /\ event.body.wellformed /\ event.body.json.t = "dict"
  \/ event.body.t = "dict"
RequestUrl == event.body.json.url
\* The request names a url that is not empty once stripped.
HasUrl ==
  /\ IsPost /\ RequestIsDict
  /\ RequestUrl.t = "str"
  /\ \E i \in 1..Len(RequestUrl.s) : RequestUrl.s[i] \notin Whitespace
UrlMissingOrEmpty ==
  \/ event.body.t \in {"missing", "null"}
  \/ /\ RequestIsDict
     /\ \/ RequestUrl.t = "missing"
        \/ /\ RequestUrl.t = "str"
           /\ \A i \in 1..Len(RequestUrl.s) : RequestUrl.s[i] \in Whitespace

\* The state Invoke leaves: handler has returned without a parse, or the
\* first request of a parse is about to be made.  The event, the platform and
\* the parser stay as they are from there on.
Entered ==
  \/ pc = "done" /\ calls = 0
  \/ pc = "request" /\ calls = 1 /\ attempts = << >>

Status == response.statusCode
Body == response.body.value
Range(f) == {f[i] : i \in DOMAIN f}

\* domain occurs in url, whatever the case of the letters of url.
OccursAnyCase(domain, url) ==
  \E i \in 0..(Len(url) - Len(domain)) :
     \A k \in 1..Len(domain) : LowerChar(url[i + k]) = domain[k]
\* The url names platform i of the registry.
Names(i, url) ==
  \E d \in 1..Len(SUPPORTED_PLATFORMS[i].domains) :
     OccursAnyCase(SUPPORTED_PLATFORMS[i].domains[d], url)
NamesNone(url) == \A i \in 1..Len(SUPPORTED_PLATFORMS) : ~Names(i, url)

\* C1: a POST with a non-empty url that names no registered domain ends in 400
\* with the unsupported-platform message; one that classifies to bilibili or
\* weishi ends in 500 with the message naming the platform as not implemented;
\* in both cases no strategy runs and no request is made.
C1_Rejections ==
  (HasUrl /\ Entered) =>
    LET url == strip(RequestUrl.s)
        classified == get_platform_from_url(url)
        quiet == /\ pc = "done" /\ calls = 0 /\ parser = None
                 /\ "parse" \notin Range(steps)
                 /\ "make_request" \notin Range(steps)
                 /\ ~Body.success
    IN /\ NamesNone(url) =>
            quiet /\ Status = 400 /\ Body.message = MsgUnsupported
       /\ classified \in {"bilibili", "weishi"} =>
            /\ quiet /\ Status = 500
            /\ Body.message = << classified, " parser is not implemented yet" >>
            /\ Body.message /= MsgUnsupported

C1_Witness ==
  /\ pc = "done" /\ HasUrl
  /\ platform = "bilibili"
  /\ Status = 500
  /\ Body.message = MsgNotImplemented("bilibili")

\* Whether an attempt of make_request counts as failed: session.get raised,
\* or the response has a 4xx or 5xx status (non2xx = FALSE), or any status
\* outside 2xx (non2xx = TRUE).
AttemptFailed(outcome, non2xx) ==
  \/ outcome.kind = "exception"
  \/ IF non2xx THEN outcome.status < 200 \/ outcome.status > 299
     ELSE outcome.status >= 400 /\ outcome.status <= 599
\* The error make_request raises for a failed attempt.
ErrorOf(outcome) == IF outcome.kind = "exception" THEN outcome.exc.type ELSE "HTTPError"

\* The course of one make_request call, with non2xx telling which attempts
\* count as failures: attempts are made while the earlier ones all failed, at
\* most MAX_RETRIES of them; the call raises only after MAX_RETRIES failed
\* attempts, and then the error of the last one; it returns the response of
\* the first attempt that did not fail, also when that is the last one.
Retrying(non2xx) ==
  LET n == Len(attempts)
  IN /\ n <= MAX_RETRIES
     /\ pc = "request" => n < MAX_RETRIES /\ \A i \in 1..n : AttemptFailed(attempts[i], non2xx)
     /\ (pc = "fetched" /\ fetch.kind = "raise") =>
          /\ n = MAX_RETRIES
          /\ \A i \in 1..n : AttemptFailed(attempts[i], non2xx)
          /\ fetch.exc.type = ErrorOf(attempts[n])
     /\ (pc = "fetched" /\ fetch.kind = "return") =>
          /\ n >= 1
          /\ \A i \in 1..(n - 1) : AttemptFailed(attempts[i], non2xx)
          /\ ~AttemptFailed(attempts[n], non2xx)
          /\ fetch.status = attempts[n].status

\* C2 (as amended): make_request makes at most MAX_RETRIES attempts; an attempt
\* fails on a connection error, a timeout or a 4xx/5xx status, while a 3xx
\* response is returned like a 2xx one; the error is raised only after the
\* last attempt failed too and is that attempt's error; the response of an
\* attempt that does not fail, the last included, is returned with no attempt
\* after it.
C2_Retries == Retrying(FALSE)

\* C2 as stated: the same with every non-2xx status counted as a failure.
C2_Original == Retrying(TRUE)

C2_Witness ==
  /\ pc = "fetched" /\ fetch.kind = "raise"
  /\ Len(attempts) = MAX_RETRIES
  /\ attempts[1].kind = "exception" /\ attempts[1].exc.type = "Timeout"
  /\ attempts[MAX_RETRIES].kind = "response"
  /\ fetch.exc.type = "HTTPError"

\* C3: a success record (status 200, success true) has a download_url that is
\* neither missing nor empty.
C3_DownloadUrl ==
  (pc = "done" /\ Body.kind = "record") =>
    /\ Status = 200 /\ Body.success
    /\ Body.record.download_url.t \notin {"missing", "null"}
    /\ Body.record.download_url.t = "str" => Body.record.download_url.s /= << >>

C3_Witness ==
  /\ pc = "done" /\ Status = 200 /\ Body.success
  /\ page.of = "kuaishou"
  /\ page.doc.srcNoMark = Str(<< >>)
  /\ Body.record.download_url = page.doc.src

\* C4: a fault that is a programming defect, raised anywhere in the invocation,
\* is reported as 500 with the generic internal-error message.
C4_Faults ==
  (pc = "done" /\ origin.type \in FaultTypes) =>
    /\ Status = 500
    /\ Body.message = MsgInternal

\* C5: with a POST, a body that cannot be decoded gives 400 and the
\* malformed-request message, and a missing or empty url (the body absent or
\* null, the url absent or only whitespace) gives 400 and the url-required
\* message; neither reaches the classifier, a strategy or the network.
C5_Validation ==
  (pc = "done" /\ IsPost) =>
    /\ BodyUnparsable =>
         /\ Status = 400 /\ ~Body.success /\ Body.message = MsgMalformed
         /\ steps = << "method", "body" >>
    /\ UrlMissingOrEmpty =>
         /\ Status = 400 /\ ~Body.success /\ Body.message = MsgUrlRequired
         /\ steps = << "method", "body", "url" >>
         /\ calls = 0

\* C6: get_platform_from_url returns, for a url that names registered domains
\* in any letter case, the platform that comes first in the registry order
\* douyin, kuaishou, xiaohongshu, bilibili, weishi among those named, and None
\* for a url that names none; it raises nothing.
C6_Classify ==
  /\ [i \in 1..Len(SUPPORTED_PLATFORMS) |-> SUPPORTED_PLATFORMS[i].platform]
       = << "douyin", "kuaishou", "xiaohongshu", "bilibili", "weishi" >>
  /\ (HasUrl /\ Entered) =>
       LET url == strip(RequestUrl.s)
       IN /\ "classify" \in Range(steps)
          /\ \A i \in 1..Len(SUPPORTED_PLATFORMS) :
               (Names(i, url) /\ \A j \in 1..(i - 1) : ~Names(j, url))
                 => platform = SUPPORTED_PLATFORMS[i].platform
          /\ NamesNone(url) => platform = None
          /\ calls = 0 => (origin = NoExc /\ ~escaped)

C6_Witness ==
  /\ Entered /\ HasUrl
  /\ platform = "douyin"
  /\ Names(2, RequestUrl.s)
  /\ ~Contains(<<"d", "o", "u", "y", "i", "n", ".", "c", "o", "m">>, RequestUrl.s)

C7_Response ==
  /\ pc = "done" =>
       /\ ~escaped
       /\ Status \in {200, 400, 405, 500}
       /\ response.headers.allow_origin = "*"
       /\ response.headers.allow_methods = "POST, OPTIONS"
       /\ response.headers.allow_headers = "Content-Type"
       /\ response.headers.content_type = "application/json"
       /\ response.body.encoding = "json"
  /\ pc /= "done" =>
       /\ response = NoResponse /\ ~escaped
       \* the invocation is at a statement of handler, make_request or a parse
       /\ \/ pc \in {"start", "request"}
          \/ pc = "fetched" /\ parser \in ImplementedParsers

\* The steps an invocation has left at most: it falls with every step, so
\* no invocation goes on for ever.
StepsLeft ==
  LET unit == MAX_RETRIES + 2
  IN CASE pc = "start" -> 2 * unit + 1
       [] pc = "request" -> (3 - calls) * unit - Len(attempts)
       [] pc = "fetched" -> (2 - calls) * unit + 1
       [] OTHER -> 0

\* C7: every invocation ends with one response and no exception escaping; the
\* status is 200, 400, 405 or 500, the headers are the permissive cross-origin
\* headers with a JSON content type, and the body is JSON.  Until the response
\* the invocation has a next step and comes closer to its end with each;
\* nothing happens after the response.
C7_OneResponse ==
  /\ [] C7_Response
  /\ [][pc /= "done" /\ StepsLeft' >= 0 /\ StepsLeft' < StepsLeft]_vars

C7_Witness ==
  /\ pc = "done" /\ ~escaped
  /\ origin.type = "AttributeError"
  /\ calls = 0
  /\ Status = 500

\* The url DouyinParser.parse looks for the id in, given its first response.
ResolvedUrl ==
  IF fetch.status \in {301, 302} /\ fetch.location.t = "str"
  THEN fetch.location.s ELSE video_url

C8_Counts ==
  /\ calls \in 0..2
  /\ completed \in 0..calls
  /\ calls - completed <= 1
  /\ (pc = "request") <=> (calls = completed + 1)
  /\ parser /= None => calls >= 1
  /\ parser \in {"kuaishou", "xiaohongshu"} => calls = 1
  /\ calls = 2 =>
       /\ parser = "douyin"
       /\ video_id.t = "str" /\ video_id.s /= << >>
       /\ \A i \in 1..Len(video_id.s) : video_id.s[i] \in Digits
       /\ pc = "request" => call.url = DouyinApiPrefix \o video_id.s

C8_Order ==
  /\ calls' /= calls =>
       \/ calls = 0 /\ calls' = 1
       \/ /\ calls = 1 /\ calls' = 2
          /\ pc = "fetched" /\ fetch.kind = "return"
          /\ extract_video_id(ResolvedUrl).t = "str"
          /\ video_id' = extract_video_id(ResolvedUrl)
  /\ (/\ pc = "fetched" /\ parser = "douyin" /\ calls = 1
      /\ \/ fetch.kind = "raise"
         \/ extract_video_id(ResolvedUrl).t /= "str")
       => (pc' = "done" /\ calls' = 1)

\* C8: an invocation that reaches a strategy makes one or two make_request
\* calls, never two at a time; kuaishou and xiaohongshu make one; douyin makes
\* its api request only after the first request returned and an id was found in
\* the resolved url, and makes none where the first request failed or no id
\* was found.
C8_Calls == [] C8_Counts /\ [][C8_Order]_vars

C8_Witness ==
  /\ pc = "done" /\ parser = "douyin" /\ calls = 2 /\ completed = 2
  /\ video_id = Str(<<"4", "2">>)
  /\ Status = 200

\* The positions of the video notes of a noteDetailMap.
VideoNotes(m) == {i \in 1..Len(m) : m[i].shape = "dict" /\ m[i].type = Str(<<"v", "i", "d", "e", "o">>)}
AllNotesAreDicts(m) == \A i \in 1..Len(m) : m[i].shape = "dict"

\* C9: the xiaohongshu strategy takes title, author and video key from the
\* first video note of the map; with no video note (an empty map, or notes
\* that are all of another type) it fails with the no-note-data message; a
\* page without the state pattern and a page whose state is not JSON fail with
\* two different messages.
C9_Notes ==
  (pc = "done" /\ page.of = "xiaohongshu") =>
    LET doc == page.doc
        m == doc.noteDetailMap
        readable == doc.pattern /\ doc.json_ok /\ doc.note = "dict"
        absent == << XiaohongshuPrefix, "cannot find the page state data" >>
        invalid == << XiaohongshuPrefix, "cannot parse the page data" >>
        nothing == << XiaohongshuPrefix, "cannot extract the note data" >>
    IN /\ absent /= invalid
       /\ ~doc.pattern => (Status = 400 /\ Body.message = absent)
       /\ (doc.pattern /\ ~doc.json_ok) => (Status = 400 /\ Body.message = invalid)
       /\ (readable /\ AllNotesAreDicts(m) /\ VideoNotes(m) = {}) =>
            (Status = 400 /\ ~Body.success /\ Body.message = nothing)
       /\ (readable /\ Status = 200) =>
            /\ VideoNotes(m) /= {}
            /\ LET first == m[SetMin(VideoNotes(m))]
               IN /\ Body.record.download_url = first.videoKey
                  /\ Body.record.title.s = first.title.s
                  /\ Body.record.author.s = first.nickname.s
                  /\ Body.record.filename = <<"x", "i", "a", "o", "h", "o", "n", "g", "s", "h", "u", "_">> \o first.note_id \o <<".", "m", "p", "4">>

C9_Witness ==
  /\ pc = "done" /\ page.of = "xiaohongshu" /\ Status = 200
  /\ Len(page.doc.noteDetailMap) = 2
  /\ VideoNotes(page.doc.noteDetailMap) = {1, 2}
  /\ page.doc.noteDetailMap[1].title /= page.doc.noteDetailMap[2].title

\* The title and the identifier the payload gives for the record.
PayloadTitle ==
  CASE page.of = "douyin" -> page.doc.desc
    [] page.of = "kuaishou" -> page.doc.title
    [] OTHER -> page.doc.noteDetailMap[SetMin(VideoNotes(page.doc.noteDetailMap))].title
PayloadId ==
  CASE page.of = "douyin" -> video_id
    [] page.of = "kuaishou" -> page.doc.photoId
    [] OTHER -> Str(page.doc.noteDetailMap[SetMin(VideoNotes(page.doc.noteDetailMap))].note_id)
GenericTitle ==
  CASE page.of = "douyin" -> DouyinTitle
    [] page.of = "kuaishou" -> KuaishouTitle
    [] OTHER -> XiaohongshuTitle
SlugOf(p) ==
  CASE p = "douyin" -> <<"d", "o", "u", "y", "i", "n">>
    [] p = "kuaishou" -> <<"k", "u", "a", "i", "s", "h", "o", "u">>
    [] OTHER -> <<"x", "i", "a", "o", "h", "o", "n", "g", "s", "h", "u">>

\* C10: in a success record a title the payload does not give is replaced by
\* the platform's generic title, never by the empty string, and the filename
\* is <platform>_<id>.mp4 with the payload's identifier, <platform>_video.mp4
\* without one.
C10_Defaults ==
  (pc = "done" /\ Status = 200 /\ Body.kind = "record") =>
    /\ PayloadTitle.t = "missing" =>
         (Body.record.title = Str(GenericTitle) /\ Body.record.title.s /= << >>)
    /\ Body.record.filename =
         SlugOf(page.of) \o << "_" >>
           \o (IF PayloadId.t = "missing" THEN <<"v", "i", "d", "e", "o">> ELSE PayloadId.s)
           \o <<".", "m", "p", "4">>

====
